---- MODULE Spec2Model ----
(***************************************************************************)
(* Model of the scoreboard pipeline of astrbot_plugin_lp_stats:            *)
(*   api/process_scoreboard.py  nbt_to_json, clean_score_entry,            *)
(*                              group_scores_by_player, process_*          *)
(*   api/rankings.py            calculate_player_stats, generate_rankings, *)
(*                              save_rankings_to_json                      *)
(*   main.py                    DataManager, RankingsManager and the       *)
(*                              rate limiter and command handlers of       *)
(*                              LPStatsPlugin                              *)
(*   api/generate_player_stats_image.py  main                              *)
(*                                                                         *)
(* Representation of the Python values.                                    *)
(*   - a score entry (dict with string keys) is a function whose domain    *)
(*     is the set of its keys;                                             *)
(*   - a dict whose iteration order is observable (the grouped scores,     *)
(*     the player statistics) is a sequence of [key, value] items with     *)
(*     pairwise different keys, in insertion order;                        *)
(*   - a player name is the sequence of its characters, so that            *)
(*     str.startswith can be computed; other strings are TLA+ strings;     *)
(*   - an Optional value is None (the empty sequence) or Some(v) = <<v>>;  *)
(*   - a float quotient of two integers is the reduced fraction [num,den]  *)
(*     with den > 0.  For the magnitudes modelled here IEEE doubles keep   *)
(*     different quotients different and equal quotients equal.            *)
(***************************************************************************)
EXTENDS Integers, Sequences, FiniteSets, TLC

VARIABLES
    scoreboard_json,      \* content of scoreboard.json (a JSON value)
    scoreboard_data,      \* the object load_scoreboard_data returned
    grouped_scores,       \* Some(result of group_scores_by_player) or None
    player_scores_json,   \* Some(content of player_scores_grouped.json),
                          \* or None when the file does not exist
    rankings,             \* first component of generate_rankings' result
    error,                \* second component of generate_rankings' result
    pc,                   \* position in the pipeline
    entries,              \* the argument of calculate_player_stats
    aggregate,            \* Some(its result) or None
    nbt_data,             \* the argument of nbt_to_json
    projected,            \* Some(nbt_to_json(nbt_data)) or None
    reprojected,          \* Some(nbt_to_json of that result) or None
    scoreboard_dat,       \* Some([data, mtime]) of scoreboard.dat, or None
                          \* when the file does not exist; data is None
                          \* when nbtlib cannot load the file
    json_mtime,           \* Some(st_mtime of scoreboard.json), or None when
                          \* the file does not exist
    grouped_mtime,        \* Some(st_mtime of player_scores_grouped.json),
                          \* or None when the file does not exist
    now,                  \* the clock that stamps written files
    API_AVAILABLE,        \* whether the api modules were imported
    returned,             \* how the last update_data_files call ended
    caller,               \* the operation that ran last
    players,              \* Some(the player list it produced) or None
    turn,                 \* flips at every request, so that a request is a
                          \* step even when it changes nothing else
    rankings_json,        \* Some(content of rankings.json) or None
    saved,                \* Some(result of save_rankings_to_json) or None
    last_query_time,      \* self.last_query_time: user_id -> time.time()
    query_interval,       \* self.config.query_interval, in seconds
    reply,                \* Some(what the last command handler did) or None
    last_allowed,         \* session -> Some(time of its last query that a
                          \* handler reported as allowed) or None
    promised              \* session -> the times "denied query + reported
                          \* wait" since its last allowed query

\* the state of calculate_player_stats called on its own
statsvars == <<entries, aggregate>>

\* the variables that the grouping and ranking stages do not touch
\* the state of nbt_to_json called on its own
nbtvars == <<nbt_data, projected, reprojected>>

\* the files and results of the plugin's data refresh
refreshvars == <<scoreboard_dat, json_mtime, grouped_mtime, now,
                 API_AVAILABLE, returned, caller, players,
                   turn>>

\* the state of save_rankings_to_json
savevars == <<rankings_json, saved>>

\* the state of the rate limiter, and what the handlers reported
limitvars == <<last_query_time, query_interval, reply, last_allowed, promised>>

pluginvars == <<refreshvars, savevars, limitvars>>

othervars == <<statsvars, nbtvars, pluginvars>>

vars == <<scoreboard_json, scoreboard_data, grouped_scores,
          player_scores_json, rankings, error, pc, othervars>>

----------------------------------------------------------------------------
(* Python values                                                           *)

None == <<>>
Some(v) == <<v>>

EmptyDict == <<>>

\* dict.get(key, default)
Get(d, key, default) == IF key \in DOMAIN d THEN d[key] ELSE default

\* dict.pop(key, None) on d: the dict that remains
Pop(d, key) == [k \in DOMAIN d \ {key} |-> d[k]]

\* dict.copy(): a new dict with the same items
Copy(d) == [k \in DOMAIN d |-> d[k]]

\* Python truthiness of a list, dict or str
Truthy(v) == v # <<>>

\* the keys of an ordered dict, in iteration order
Keys(od) == [i \in 1..Len(od) |-> od[i].key]

KeySet(od) == {od[i].key : i \in 1..Len(od)}

\* od[key] for a key that is present
Lookup(od, key) == od[CHOOSE i \in 1..Len(od) : od[i].key = key].value

\* str.startswith(prefix) for a one-character prefix
StartsWith(name, ch) == Len(name) > 0 /\ name[1] = ch

Reverse(s) == [i \in 1..Len(s) |-> s[Len(s) + 1 - i]]

----------------------------------------------------------------------------
(* api/process_scoreboard.py                                               *)

\* The default of score_entry.get("Name", ...): the four characters of the
\* literal in the source, written by their pinyin.
UnknownPlayer == <<"wei", "zhi", "wan", "jia">>

\* clean_score_entry with Locked and Name popped from the argument itself
\* instead of from a copy.
CleanScoreEntryInPlace(score_entry) ==
    LET cleaned == Pop(Pop(score_entry, "Locked"), "Name")
    IN  [cleaned |-> cleaned, score_entry |-> cleaned]

\* clean_score_entry with only Name popped.
CleanScoreEntryKeepLocked(score_entry) ==
    [cleaned |-> Pop(Copy(score_entry), "Name"), score_entry |-> score_entry]

\* clean_score_entry(score_entry): the returned dict, and the argument as
\* the call leaves it.
clean_score_entry(score_entry) ==
    LET copied  == Copy(score_entry)
        cleaned == Pop(Pop(copied, "Locked"), "Name")
    IN  [cleaned |-> cleaned, score_entry |-> score_entry]

\* grouped[player_name].append(cleaned_entry) on a defaultdict(list) that
\* puts a new group at the front instead of at the end.
GroupAppendFront(grouped, player_name, cleaned_entry) ==
    IF player_name \in KeySet(grouped)
    THEN [i \in 1..Len(grouped) |->
             IF grouped[i].key = player_name
             THEN [key |-> player_name,
                   value |-> Append(grouped[i].value, cleaned_entry)]
             ELSE grouped[i]]
    ELSE <<[key |-> player_name, value |-> <<cleaned_entry>>]>> \o grouped

\* grouped[player_name].append(cleaned_entry) that replaces the group.
GroupAppendReplace(grouped, player_name, cleaned_entry) ==
    IF player_name \in KeySet(grouped)
    THEN [i \in 1..Len(grouped) |->
             IF grouped[i].key = player_name
             THEN [key |-> player_name, value |-> <<cleaned_entry>>]
             ELSE grouped[i]]
    ELSE Append(grouped, [key |-> player_name, value |-> <<cleaned_entry>>])

\* grouped[player_name].append(cleaned_entry) on a defaultdict(list)
GroupAppend(grouped, player_name, cleaned_entry) ==
    IF player_name \in KeySet(grouped)
    THEN [i \in 1..Len(grouped) |->
             IF grouped[i].key = player_name
             THEN [key |-> player_name,
                   value |-> Append(grouped[i].value, cleaned_entry)]
             ELSE grouped[i]]
    ELSE Append(grouped, [key |-> player_name, value |-> <<cleaned_entry>>])

\* the loop with records that have no Name skipped
RECURSIVE GroupLoopSkipUnnamed(_, _, _)
GroupLoopSkipUnnamed(player_scores, i, grouped) ==
    IF i > Len(player_scores)
    THEN [grouped |-> grouped, player_scores |-> player_scores]
    ELSE IF "Name" \notin DOMAIN player_scores[i]
    THEN GroupLoopSkipUnnamed(player_scores, i + 1, grouped)
    ELSE GroupLoopSkipUnnamed(player_scores, i + 1,
            GroupAppend(grouped, player_scores[i].Name,
                        clean_score_entry(player_scores[i]).cleaned))

\* The loop of group_scores_by_player from entry i on: the grouped dict and
\* the PlayerScores list as the loop leaves them.
RECURSIVE GroupLoop(_, _, _)
GroupLoop(player_scores, i, grouped) ==
    IF i > Len(player_scores)
    THEN [grouped |-> grouped, player_scores |-> player_scores]
    ELSE LET score_entry == player_scores[i]
             player_name == Get(score_entry, "Name", UnknownPlayer)
             c           == clean_score_entry(score_entry)
         IN  GroupLoop([player_scores EXCEPT ![i] = c.score_entry],
                       i + 1,
                       GroupAppend(grouped, player_name, c.cleaned))

\* scoreboard_data.get("data", {}).get("PlayerScores", [])
PlayerScoresOf(data) == Get(Get(data, "data", EmptyDict), "PlayerScores", <<>>)

\* group_scores_by_player(scoreboard_data): the returned dict, and the
\* PlayerScores list as the call leaves it.
group_scores_by_player(data) ==
    LET player_scores == PlayerScoresOf(data)
    IN  IF ~Truthy(player_scores)
        THEN [grouped |-> EmptyDict, player_scores |-> player_scores]
        ELSE GroupLoop(player_scores, 1, <<>>)

----------------------------------------------------------------------------
(* api/process_scoreboard.py: nbt_to_json                                  *)
(*                                                                         *)
(* A Python object is [tag, val].  The tag is the class that isinstance    *)
(* sees: an nbtlib tag class ("Compound", "List", "ByteArray", "IntArray", *)
(* "LongArray", "Byte", "Short", "Int", "Long", "Float", "Double",         *)
(* "String") or a builtin class ("dict", "list", "int", "float", "str");   *)
(* "item" is the class of the elements that list() yields from an array.   *)
(* The tag classes derive from the builtin ones, never the other way, so   *)
(* a builtin object is an instance of no tag class.  val is a sequence of  *)
(* [key, value] items for a mapping, a sequence of objects for a list, a   *)
(* sequence of integers for an array, an integer for an integer, a number  *)
(* of halves for a float (3 is 1.5) and a character sequence for a string. *)

Obj(tag, val) == [tag |-> tag, val |-> val]

IntegerTags == {"Byte", "Short", "Int", "Long"}
FloatTags == {"Float", "Double"}
ArrayTags == {"ByteArray", "IntArray", "LongArray"}

\* str(n) for an integer n
IntText(n) ==
    LET RECURSIVE digits(_)
        digits(k) ==
            IF k < 10 THEN <<k>> ELSE Append(digits(k \div 10), k % 10)
        chars == <<"0", "1", "2", "3", "4", "5", "6", "7", "8", "9">>
        ds == digits(IF n < 0 THEN -n ELSE n)
        text == [i \in 1..Len(ds) |-> chars[ds[i] + 1]]
    IN  IF n < 0 THEN <<"-">> \o text ELSE text

\* str(x) for the float x of h halves
FloatText(h) ==
    LET a == IF h < 0 THEN -h ELSE h
        text == IntText(a \div 2) \o <<".">> \o (IF a % 2 = 0 THEN <<"0">> ELSE <<"5">>)
    IN  IF h < 0 THEN <<"-">> \o text ELSE text

\* ", ".join(parts)
RECURSIVE Join(_)
Join(parts) ==
    IF parts = <<>> THEN <<>>
    ELSE IF Len(parts) = 1 THEN parts[1]
    ELSE parts[1] \o <<",", " ">> \o Join(Tail(parts))

\* repr(obj) of a builtin object
RECURSIVE Repr(_)
Repr(obj) ==
    IF obj.tag = "str" THEN <<"'">> \o obj.val \o <<"'">>
    ELSE IF obj.tag = "float" THEN FloatText(obj.val)
    ELSE IF obj.tag = "list"
    THEN <<"[">> \o Join([i \in 1..Len(obj.val) |-> Repr(obj.val[i])]) \o <<"]">>
    ELSE IF obj.tag = "dict"
    THEN <<"{">>
           \o Join([i \in 1..Len(obj.val) |->
                       <<"'">> \o obj.val[i].key \o <<"'", ":", " ">>
                         \o Repr(obj.val[i].value)])
           \o <<"}">>
    ELSE IntText(obj.val)

\* str(obj) of a builtin object
Str(obj) == IF obj.tag = "str" THEN obj.val ELSE Repr(obj)

\* nbt_to_json(nbt_data): the chain of isinstance tests
RECURSIVE nbt_to_json(_)
nbt_to_json(obj) ==
    IF obj.tag = "Compound"
    THEN Obj("dict", [i \in 1..Len(obj.val) |->
                         [key |-> obj.val[i].key,
                          value |-> nbt_to_json(obj.val[i].value)]])
    ELSE IF obj.tag = "List"
    THEN Obj("list", [i \in 1..Len(obj.val) |-> nbt_to_json(obj.val[i])])
    ELSE IF obj.tag \in ArrayTags
    THEN Obj("list", [i \in 1..Len(obj.val) |-> Obj("item", obj.val[i])])
    ELSE IF obj.tag \in IntegerTags THEN Obj("int", obj.val)
    ELSE IF obj.tag \in FloatTags THEN Obj("float", obj.val)
    ELSE IF obj.tag = "String" THEN Obj("str", obj.val)
    ELSE Obj("str", Str(obj))

----------------------------------------------------------------------------
(* api/rankings.py: calculate_player_stats                                 *)

ZeroStats ==
    [play_time_seconds |-> 0, games_played |-> 0, wins |-> 0,
     kills |-> 0, deaths |-> 0]

\* one iteration of the loop of calculate_player_stats
StatsStep(stats, entry) ==
    LET objective == Get(entry, "Objective", "")
        score     == Get(entry, "Score", 0)
    IN  IF objective = "PlayTime.Hour"
        THEN [stats EXCEPT !.play_time_seconds = @ + score * 3600]
        ELSE IF objective = "PlayTime.Min"
        THEN [stats EXCEPT !.play_time_seconds = @ + score * 60]
        ELSE IF objective = "PlayTime.Sec"
        THEN [stats EXCEPT !.play_time_seconds = @ + score]
        ELSE IF objective = "CompletedCount"
        THEN [stats EXCEPT !.games_played = score]
        ELSE IF objective = "WinCount"
        THEN [stats EXCEPT !.wins = score]
        ELSE IF objective = "KilledCount"
        THEN [stats EXCEPT !.kills = score]
        ELSE IF objective = "DeathCount"
        THEN [stats EXCEPT !.deaths = score]
        ELSE stats

\* the loop with PlayTime.Min assigned instead of accumulated
RECURSIVE StatsLoopMinAssigned(_, _, _)
StatsLoopMinAssigned(data, i, acc) ==
    IF i > Len(data) THEN acc
    ELSE StatsLoopMinAssigned(data, i + 1,
            IF Get(data[i], "Objective", "") = "PlayTime.Min"
            THEN [acc EXCEPT !.play_time_seconds = Get(data[i], "Score", 0) * 60]
            ELSE StatsStep(acc, data[i]))

\* the loop with KilledCount accumulated instead of assigned
RECURSIVE StatsLoopKillsSummed(_, _, _)
StatsLoopKillsSummed(data, i, acc) ==
    IF i > Len(data) THEN acc
    ELSE StatsLoopKillsSummed(data, i + 1,
            IF Get(data[i], "Objective", "") = "KilledCount"
            THEN [acc EXCEPT !.kills = @ + Get(data[i], "Score", 0)]
            ELSE StatsStep(acc, data[i]))

\* the loop with a record without Objective counted as seconds played
RECURSIVE StatsLoopDefaultObjective(_, _, _)
StatsLoopDefaultObjective(data, i, acc) ==
    IF i > Len(data) THEN acc
    ELSE StatsLoopDefaultObjective(data, i + 1,
            IF "Objective" \notin DOMAIN data[i]
            THEN [acc EXCEPT !.play_time_seconds = @ + Get(data[i], "Score", 0)]
            ELSE StatsStep(acc, data[i]))

\* the loop with the Score of DeathCount stored negated
RECURSIVE StatsLoopDeathsNegated(_, _, _)
StatsLoopDeathsNegated(data, i, acc) ==
    IF i > Len(data) THEN acc
    ELSE StatsLoopDeathsNegated(data, i + 1,
            IF Get(data[i], "Objective", "") = "DeathCount"
            THEN [acc EXCEPT !.deaths = 0 - Get(data[i], "Score", 0)]
            ELSE StatsStep(acc, data[i]))

RECURSIVE StatsLoop(_, _, _)
StatsLoop(data, i, acc) ==
    IF i > Len(data) THEN acc
    ELSE StatsLoop(data, i + 1, StatsStep(acc, data[i]))

calculate_player_stats(data) == StatsLoop(data, 1, ZeroStats)

----------------------------------------------------------------------------
(* Python arithmetic and formatting used by generate_rankings              *)

RECURSIVE Gcd(_, _)
Gcd(a, b) == IF b = 0 THEN a ELSE Gcd(b, a % b)

Abs(n) == IF n < 0 THEN -n ELSE n

\* the float a / b for integers a and b, b # 0
TrueDiv(a, b) ==
    LET g == Gcd(Abs(a), Abs(b))
    IN  IF b < 0 THEN [num |-> (-a) \div g, den |-> (-b) \div g]
        ELSE [num |-> a \div g, den |-> b \div g]

\* the float f * n for an integer n > 0
FloatMul(f, n) ==
    LET g == Gcd(Abs(f.num * n), f.den)
    IN  [num |-> (f.num * n) \div g, den |-> f.den \div g]

\* x < y between two ints, or between two floats
Less(x, y, float) ==
    IF float THEN x.num * y.den < y.num * x.den ELSE x < y

DigitChars == <<"0", "1", "2", "3", "4", "5", "6", "7", "8", "9">>

\* str(n) for n >= 0
RECURSIVE Decimal(_)
Decimal(n) ==
    IF n < 10 THEN <<DigitChars[n + 1]>>
    ELSE Decimal(n \div 10) \o <<DigitChars[(n % 10) + 1]>>

\* format(n, "02d"): sign first, then zeros up to a width of 2, then digits
Format02d(n) ==
    IF n < 0 THEN <<"-">> \o Decimal(-n)
    ELSE IF n < 10 THEN <<"0">> \o Decimal(n)
    ELSE Decimal(n)

\* list.sort(key=value) without reverse: binary insertion keeps an element
\* behind the elements that are not greater
RECURSIVE InsertSorted(_, _, _)
InsertSorted(sorted, item, float) ==
    IF sorted = <<>> THEN <<item>>
    ELSE IF Less(item.value, sorted[1].value, float)
         THEN <<item>> \o sorted
         ELSE <<sorted[1]>> \o InsertSorted(Tail(sorted), item, float)

RECURSIVE SortAscending(_, _, _)
SortAscending(list, sorted, float) ==
    IF list = <<>> THEN sorted
    ELSE SortAscending(Tail(list), InsertSorted(sorted, list[1], float), float)

\* list.sort(key=value, reverse=True) as "sort ascending, then reverse"
ListSortReversedAfter(list, float, reverse) ==
    IF reverse THEN Reverse(SortAscending(list, <<>>, float))
    ELSE SortAscending(list, <<>>, float)

\* list.sort(key=lambda x: x["value"], reverse=reverse): with reverse the
\* list is reversed, sorted stably ascending and reversed again
ListSort(list, float, reverse) ==
    IF reverse THEN Reverse(SortAscending(Reverse(list), <<>>, float))
    ELSE SortAscending(list, <<>>, float)

----------------------------------------------------------------------------
(* api/rankings.py: generate_rankings                                      *)

Categories ==
    <<"play_time", "games_played", "wins", "kills", "deaths",
      "kd_ratio", "win_rate">>

FloatCategories == {"kd_ratio", "win_rate"}

\* the name filter with the test for '[' left out
IsPlayerNameNoBracket(player_name) ==
    /\ Truthy(player_name)
    /\ ~StartsWith(player_name, "$")
    /\ ~StartsWith(player_name, "#")
    /\ ~StartsWith(player_name, "%")

\* the condition of the filter loop on player_name
IsPlayerName(player_name) ==
    /\ Truthy(player_name)
    /\ ~StartsWith(player_name, "$")
    /\ ~StartsWith(player_name, "#")
    /\ ~StartsWith(player_name, "%")
    /\ ~StartsWith(player_name, "[")

\* the filter loop: player_stats, in the iteration order of the file
RECURSIVE FilterLoop(_, _, _)
FilterLoop(all_player_data, i, player_stats) ==
    IF i > Len(all_player_data) THEN player_stats
    ELSE FilterLoop(all_player_data, i + 1,
            IF IsPlayerName(all_player_data[i].key)
            THEN Append(player_stats,
                        [key |-> all_player_data[i].key,
                         value |-> calculate_player_stats(all_player_data[i].value)])
            ELSE player_stats)

\* the divisor of kd_ratio without the guard
DeathsDivisorUnguarded(stats) == stats.deaths

\* deaths = stats["deaths"] if stats["deaths"] > 0 else 1
DeathsDivisor(stats) == IF stats.deaths > 0 THEN stats.deaths ELSE 1

\* games = stats["games_played"] if stats["games_played"] > 0 else 1
GamesDivisor(stats) == IF stats.games_played > 0 THEN stats.games_played ELSE 1

\* a division in the loop raises ZeroDivisionError
Raises(player_stats) ==
    \E i \in 1..Len(player_stats) :
        \/ DeathsDivisor(player_stats[i].value) = 0
        \/ GamesDivisor(player_stats[i].value) = 0

\* the play_time entry with minutes taken from the whole total
PlayTimeEntryMinutesOfTotal(player_name, stats) ==
    LET play_time_seconds == stats.play_time_seconds
        hours   == play_time_seconds \div 3600
        minutes == play_time_seconds \div 60
        seconds == play_time_seconds % 60
    IN  [player |-> player_name, value |-> play_time_seconds,
         formatted |-> Format02d(hours) \o <<":">> \o Format02d(minutes)
                         \o <<":">> \o Format02d(seconds),
         hours |-> hours, minutes |-> minutes, seconds |-> seconds]

\* the entry appended to rankings["play_time"]
PlayTimeEntry(player_name, stats) ==
    LET play_time_seconds == stats.play_time_seconds
        hours   == play_time_seconds \div 3600
        minutes == (play_time_seconds % 3600) \div 60
        seconds == play_time_seconds % 60
    IN  [player |-> player_name, value |-> play_time_seconds,
         formatted |-> Format02d(hours) \o <<":">> \o Format02d(minutes)
                         \o <<":">> \o Format02d(seconds),
         hours |-> hours, minutes |-> minutes, seconds |-> seconds]

\* the entry appended to rankings[key] for one player.  The "formatted"
\* strings of kd_ratio and win_rate (decimal renderings of a float) are
\* left out of the entry.
RankingEntry(key, player_name, stats) ==
    IF key = "play_time" THEN PlayTimeEntry(player_name, stats)
    ELSE IF key = "games_played"
    THEN [player |-> player_name, value |-> stats.games_played]
    ELSE IF key = "wins"
    THEN [player |-> player_name, value |-> stats.wins]
    ELSE IF key = "kills"
    THEN [player |-> player_name, value |-> stats.kills]
    ELSE IF key = "deaths"
    THEN [player |-> player_name, value |-> stats.deaths]
    ELSE IF key = "kd_ratio"
    THEN [player |-> player_name,
          value |-> TrueDiv(stats.kills, DeathsDivisor(stats))]
    ELSE [player |-> player_name,
          value |-> FloatMul(TrueDiv(stats.wins, GamesDivisor(stats)), 100)]

\* the loop with win_rate entries only for players who have played a game
UnsortedSkipsNoGames(key, player_stats) ==
    LET entered == SelectSeq(player_stats,
                       LAMBDA item : key # "win_rate"
                                       \/ item.value.games_played > 0)
    IN  [i \in 1..Len(entered) |->
            RankingEntry(key, entered[i].key, entered[i].value)]

\* rankings[key] after the loop over player_stats.items()
Unsorted(key, player_stats) ==
    [i \in 1..Len(player_stats) |->
        RankingEntry(key, player_stats[i].key, player_stats[i].value)]

\* every category sorted with reverse=True
SortReverseAlways(key) == TRUE

\* the sort loop: ascending for "deaths", reverse=True for the others
SortReverse(key) == key # "deaths"

\* the rankings dict after the sort loop
SortedRankings(player_stats) ==
    [key \in {Categories[c] : c \in 1..Len(Categories)} |->
        ListSort(Unsorted(key, player_stats),
                 key \in FloatCategories, SortReverse(key))]

MissingFileError == "player data file does not exist"
NoPlayersError == "no valid player data found"
ExceptionError == "error while generating rankings"

\* generate_rankings without the test of an empty player_stats
GenerateRankingsNoEmptyCheck(file) ==
    IF file = None
    THEN [rankings |-> None, error |-> Some(MissingFileError)]
    ELSE LET player_stats == FilterLoop(file[1], 1, <<>>)
         IN  IF Raises(player_stats)
             THEN [rankings |-> None, error |-> Some(ExceptionError)]
             ELSE [rankings |-> Some(SortedRankings(player_stats)),
                   error |-> None]

\* generate_rankings(player_scores_json_path) on the file's content: the
\* returned pair (rankings, error)
generate_rankings(file) ==
    IF file = None
    THEN [rankings |-> None, error |-> Some(MissingFileError)]
    ELSE LET player_stats == FilterLoop(file[1], 1, <<>>)
         IN  IF ~Truthy(player_stats)
             THEN [rankings |-> None, error |-> Some(NoPlayersError)]
             ELSE IF Raises(player_stats)
             THEN [rankings |-> None, error |-> Some(ExceptionError)]
             ELSE [rankings |-> Some(SortedRankings(player_stats)),
                   error |-> None]

----------------------------------------------------------------------------
(* api/rankings.py: save_rankings_to_json                                  *)

\* the length of the slice that is saved
TopCount == 10

SaveError == "error while saving rankings"

\* the slice taken from the end of the list, rank_list[-10:]
TopSliceFromEnd(rank_list) ==
    IF Len(rank_list) <= TopCount THEN rank_list
    ELSE SubSeq(rank_list, Len(rank_list) - TopCount + 1, Len(rank_list))

\* rank_list[:10], a new list
TopSlice(rank_list) ==
    IF Len(rank_list) <= TopCount THEN rank_list
    ELSE SubSeq(rank_list, 1, TopCount)

\* save_rankings_to_json(rankings, output_file) at clock reading t, on a
\* file holding old; writable says whether mkdir and open succeed.  The
\* result is the file, the returned pair and the rankings argument as the
\* call leaves it.  generated_at is the clock reading that isoformat()
\* renders.
save_rankings_to_json(rankings_arg, old, t, writable) ==
    LET data_to_save ==
            [generated_at |-> t,
             rankings |-> [key \in DOMAIN rankings_arg |->
                              TopSlice(rankings_arg[key])]]
    IN  IF writable
        THEN [file |-> Some(data_to_save),
              result |-> [success |-> TRUE, error |-> None],
              rankings |-> rankings_arg]
        ELSE [file |-> old,
              result |-> [success |-> FALSE, error |-> Some(SaveError)],
              rankings |-> rankings_arg]

----------------------------------------------------------------------------
(* main.py: LPStatsPlugin._check_query_interval                            *)
(*                                                                         *)
(* time.time() is a float of seconds; the model counts it in ticks of      *)
(* 1/TicksPerSecond second, and query_interval in whole seconds.           *)

TicksPerSecond == 2

\* the default of Config.query_interval
DefaultQueryInterval == 60

\* the sessions that send commands
Sessions == {"s1", "s2"}

\* the limiter that also records the time of a denied query
CheckRecordsDenied(times, user_id, current_time, interval) ==
    LET last_time == Get(times, user_id, None)
        recorded  == [k \in DOMAIN times \cup {user_id} |->
                         IF k = user_id THEN Some(current_time) ELSE times[k]]
    IN  IF last_time = None
        THEN [allowed |-> TRUE, remaining |-> 0, last_time |-> last_time,
              last_query_time |-> recorded]
        ELSE LET time_since_last == current_time - last_time[1]
             IN  IF time_since_last < interval * TicksPerSecond
                 THEN [allowed |-> FALSE,
                       remaining |-> (interval * TicksPerSecond
                                        - time_since_last) \div TicksPerSecond,
                       last_time |-> last_time,
                       last_query_time |-> recorded]
                 ELSE [allowed |-> TRUE, remaining |-> 0,
                       last_time |-> last_time,
                       last_query_time |-> recorded]

\* _check_query_interval(user_id) at time.time() = current_time with
\* self.last_query_time = times: the returned pair and the dict as the call
\* leaves it, with the last_time it read.  The dict holds Some(time) for a key, so that a missing key
\* and .get() returning None are told apart from a time of 0.
\* int() truncates the non-negative remaining seconds.
check_query_interval(times, user_id, current_time, interval) ==
    LET last_time == Get(times, user_id, None)
        recorded  == [k \in DOMAIN times \cup {user_id} |->
                         IF k = user_id THEN Some(current_time) ELSE times[k]]
    IN  IF last_time = None
        THEN [allowed |-> TRUE, remaining |-> 0, last_time |-> last_time,
              last_query_time |-> recorded]
        ELSE LET time_since_last == current_time - last_time[1]
             IN  IF time_since_last < interval * TicksPerSecond
                 THEN [allowed |-> FALSE,
                       remaining |-> (interval * TicksPerSecond
                                        - time_since_last) \div TicksPerSecond,
                       last_time |-> last_time,
                       last_query_time |-> times]
                 ELSE [allowed |-> TRUE, remaining |-> 0,
                       last_time |-> last_time,
                       last_query_time |-> recorded]

\* the limiter as __init__ leaves it, and nothing reported yet
NoLimit ==
    /\ last_query_time = EmptyDict
    /\ reply = None
    /\ last_allowed = [s \in Sessions |-> None]
    /\ promised = [s \in Sessions |-> {}]

----------------------------------------------------------------------------
(* Inputs of the grouping stage                                            *)

MaxRecords == 3

\* a score entry with the optional keys Name and Locked
MakeEntry(name, locked, score) ==
    LET all  == [Objective |-> "KilledCount", Score |-> score,
                 Name |-> IF name = None THEN None ELSE name[1],
                 Locked |-> IF locked = None THEN 0 ELSE locked[1]]
        keys == {"Objective", "Score"}
                  \cup (IF name = None THEN {} ELSE {"Name"})
                  \cup (IF locked = None THEN {} ELSE {"Locked"})
    IN  [k \in keys |-> all[k]]

EntryNames == {None, Some(<<"A">>), Some(<<"B">>), Some(UnknownPlayer)}

ScoreEntries ==
    {MakeEntry(n, l, s) : n \in EntryNames, l \in {None, Some(0)}, s \in {1, 2}}

\* calculate_player_stats has not been called on its own
NoStatsCall == entries = <<>> /\ aggregate = None

\* nbt_to_json has not been called on its own
NoNbtCall == nbt_data = None /\ projected = None /\ reprojected = None

\* the plugin has not refreshed its data files
NoRefresh ==
    /\ scoreboard_dat = None
    /\ json_mtime = None
    /\ grouped_mtime = None
    /\ now = 0
    /\ API_AVAILABLE = TRUE
    /\ returned = "none"
    /\ caller = "none"
    /\ players = None
    /\ turn = FALSE

\* save_rankings_to_json has not been called
NoSave == rankings_json = None /\ saved = None

NoPluginCall ==
    NoRefresh /\ NoSave /\ NoLimit /\ query_interval = DefaultQueryInterval

OthersIdle == NoStatsCall /\ NoNbtCall /\ NoPluginCall

NoRankingState ==
    /\ player_scores_json = None
    /\ rankings = None
    /\ error = None

InitGroup ==
    /\ \/ scoreboard_json = EmptyDict
       \/ scoreboard_json = [data |-> EmptyDict]
       \/ \E n \in 0..MaxRecords : \E l \in [1..n -> ScoreEntries] :
              scoreboard_json = [data |-> [PlayerScores |-> l]]
    /\ scoreboard_data = EmptyDict
    /\ grouped_scores = None
    /\ NoRankingState
    /\ OthersIdle
    /\ pc = "start"

\* load_scoreboard_data(json_file) on a file that exists and parses
LoadScoreboardData ==
    /\ pc = "start"
    /\ scoreboard_data' = scoreboard_json
    /\ pc' = "loaded"
    /\ UNCHANGED <<scoreboard_json, grouped_scores, player_scores_json,
                   rankings, error, othervars>>

\* grouped_scores = group_scores_by_player(scoreboard_data)
GroupScoresByPlayer ==
    /\ pc = "loaded"
    /\ LET r == group_scores_by_player(scoreboard_data)
       IN  /\ grouped_scores' = Some(r.grouped)
           /\ scoreboard_data' =
                 IF "data" \in DOMAIN scoreboard_data
                    /\ "PlayerScores" \in DOMAIN scoreboard_data.data
                 THEN [scoreboard_data EXCEPT
                          !.data.PlayerScores = r.player_scores]
                 ELSE scoreboard_data
    /\ pc' = "grouped"
    /\ UNCHANGED <<scoreboard_json, player_scores_json, rankings, error,
                   othervars>>

\* the rest of process_json_to_grouped: sys.exit(1) when grouped_scores is
\* empty, else export_to_json(grouped_scores, output_grouped)
ExportGrouped ==
    /\ pc = "grouped"
    /\ IF ~Truthy(grouped_scores[1])
       THEN /\ pc' = "SystemExit"
            /\ UNCHANGED player_scores_json
       ELSE /\ pc' = "exported"
            /\ player_scores_json' = grouped_scores
    /\ UNCHANGED <<scoreboard_json, scoreboard_data, grouped_scores,
                   rankings, error, othervars>>

NextGroup == LoadScoreboardData \/ GroupScoresByPlayer \/ ExportGrouped

SpecGroup == InitGroup /\ [][NextGroup]_vars

----------------------------------------------------------------------------
(* Claims about group_scores_by_player                                     *)

\* the records of the input file, and the result of the call
InputRecords == PlayerScoresOf(scoreboard_json)
Grouped == grouped_scores[1]

\* the entity a source record belongs to
OwnerOf(entry) == IF "Name" \in DOMAIN entry THEN entry.Name ELSE UnknownPlayer

\* a source record without its Locked and Name keys
Stripped(entry) == [k \in DOMAIN entry \ {"Locked", "Name"} |-> entry[k]]

\* the indices of the source records of one entity, and how many of them
\* come at or before index i
IndicesOf(name) == {i \in 1..Len(InputRecords) : OwnerOf(InputRecords[i]) = name}
RankOf(name, i) == Cardinality({j \in IndicesOf(name) : j <= i})

RECURSIVE SumOfLengths(_)
SumOfLengths(od) ==
    IF od = <<>> THEN 0 ELSE Len(od[1].value) + SumOfLengths(Tail(od))

\* C1: the lengths of the groups returned by group_scores_by_player sum to
\* the number of input records, records without a Name included.
C1_GroupingConservation ==
    pc = "grouped" => SumOfLengths(Grouped) = Len(InputRecords)

C1_Witness ==
    /\ pc = "grouped"
    /\ Len(InputRecords) = 3
    /\ Len(Grouped) = 2
    /\ \E i \in 1..3 : "Name" \notin DOMAIN InputRecords[i]
    /\ \E i \in 1..3 : "Name" \in DOMAIN InputRecords[i]

\* C2: no cleaned record has a Locked or a Name key, and the cleaned records
\* of an entity are, with multiplicity, the source records of that entity
\* with exactly these two keys removed and every other key and value kept.
C2_FieldRemoval ==
    pc = "grouped" =>
        \A g \in 1..Len(Grouped) :
            LET name    == Grouped[g].key
                cleaned == Grouped[g].value
            IN  /\ \A j \in 1..Len(cleaned) :
                       /\ "Locked" \notin DOMAIN cleaned[j]
                       /\ "Name" \notin DOMAIN cleaned[j]
                       /\ \E i \in IndicesOf(name) :
                              cleaned[j] = Stripped(InputRecords[i])
                /\ \A i \in IndicesOf(name) :
                       Cardinality({j \in 1..Len(cleaned) :
                                       cleaned[j] = Stripped(InputRecords[i])})
                         = Cardinality({k \in IndicesOf(name) :
                                           Stripped(InputRecords[k])
                                             = Stripped(InputRecords[i])})

C2_Witness ==
    /\ pc = "grouped"
    /\ \E i \in 1..Len(InputRecords) :
           /\ {"Name", "Locked", "Objective", "Score"} = DOMAIN InputRecords[i]
           /\ \E g \in 1..Len(Grouped) :
                  /\ Grouped[g].key = InputRecords[i].Name
                  /\ \E j \in 1..Len(Grouped[g].value) :
                         Grouped[g].value[j]
                           = [Objective |-> InputRecords[i].Objective,
                              Score |-> InputRecords[i].Score]

\* C3: within each group the cleaned records are in the order of their
\* source records, and the keys of the result are in the order in which
\* each entity first occurs in PlayerScores.
C3_OrderPreserved ==
    pc = "grouped" =>
        /\ \A g \in 1..Len(Grouped) :
               /\ Len(Grouped[g].value) = Cardinality(IndicesOf(Grouped[g].key))
               /\ \A i \in IndicesOf(Grouped[g].key) :
                      Grouped[g].value[RankOf(Grouped[g].key, i)]
                        = Stripped(InputRecords[i])
        /\ \A g, h \in 1..Len(Grouped) :
               g < h =>
                   \E i \in IndicesOf(Grouped[g].key) :
                       \A k \in IndicesOf(Grouped[h].key) : i < k

C3_Witness ==
    /\ pc = "grouped"
    /\ Len(InputRecords) = 3
    /\ OwnerOf(InputRecords[1]) = <<"B">>
    /\ OwnerOf(InputRecords[2]) = <<"A">>
    /\ OwnerOf(InputRecords[3]) = <<"B">>
    /\ InputRecords[1].Score # InputRecords[3].Score
    /\ Keys(Grouped) = << <<"B">>, <<"A">> >>
    /\ Lookup(Grouped, <<"B">>) = <<Stripped(InputRecords[1]),
                                    Stripped(InputRecords[3])>>

\* C4: the call leaves its input unchanged: PlayerScores has the same
\* length and order and every record keeps all its keys and values.
C4_InputUnchanged ==
    pc = "grouped" => scoreboard_data = scoreboard_json

C4_Witness ==
    /\ pc = "grouped"
    /\ Len(InputRecords) >= 2
    /\ \A i \in 1..Len(InputRecords) :
           {"Name", "Locked"} \subseteq DOMAIN PlayerScoresOf(scoreboard_data)[i]
    /\ \A g \in 1..Len(Grouped) : \A j \in 1..Len(Grouped[g].value) :
           DOMAIN Grouped[g].value[j] = {"Objective", "Score"}

\* C17: when scoreboard.json has no data.PlayerScores or an empty one,
\* group_scores_by_player returns the empty mapping and the step that calls
\* it, process_json_to_grouped, does not abort the process.
C17_EmptyScoresNoAbort ==
    ~Truthy(InputRecords) =>
        /\ pc = "grouped" => Grouped = EmptyDict
        /\ pc # "SystemExit"

\* C20: a record without a Name key is placed, cleaned, in the group of the
\* placeholder name, in source order, and every record with a Name in the
\* group of that name.
C20_MissingNamePlaceholder ==
    pc = "grouped" =>
        \A i \in 1..Len(InputRecords) :
            LET owner == IF "Name" \in DOMAIN InputRecords[i]
                         THEN InputRecords[i].Name
                         ELSE <<"wei", "zhi", "wan", "jia">>
            IN  /\ owner \in KeySet(Grouped)
                /\ RankOf(owner, i) <= Len(Lookup(Grouped, owner))
                /\ Lookup(Grouped, owner)[RankOf(owner, i)]
                     = Stripped(InputRecords[i])

C20_Witness ==
    /\ pc = "grouped"
    /\ Len(InputRecords) = 3
    /\ Get(InputRecords[1], "Name", <<>>) = <<"A">>
    /\ "Name" \notin DOMAIN InputRecords[2]
    /\ Get(InputRecords[3], "Name", <<>>) = <<"A">>
    /\ Keys(Grouped) = << <<"A">>, <<"wei", "zhi", "wan", "jia">> >>
    /\ Len(Lookup(Grouped, <<"A">>)) = 2
    /\ Lookup(Grouped, <<"wei", "zhi", "wan", "jia">>)
         = <<Stripped(InputRecords[2])>>

----------------------------------------------------------------------------
(* Inputs of the ranking stage                                             *)

MaxPlayers == 3

Rec(objective, score) == [Objective |-> objective, Score |-> score]

\* player_scores_grouped.json holds an ordered dict of at most MaxPlayers
\* items, keys from names without repetition, values from pool
FileHolds(names, pool) ==
    \E n \in 0..MaxPlayers :
        \E ks \in [1..n -> names] :
            /\ \A i, j \in 1..n : i # j => ks[i] # ks[j]
            /\ \E vs \in [1..n -> pool] :
                   player_scores_json =
                       Some([i \in 1..n |-> [key |-> ks[i], value |-> vs[i]]])

PlayerLetters == <<"A", "B", "C", "D", "E", "F">>
PlayerNames == {<<PlayerLetters[i]>> : i \in 1..MaxPlayers}

\* names that the filter has to tell apart
RosterNames ==
    {<<>>, <<"$", "C", "O", "N", "S", "T", "-", "x">>, <<"#", "x">>,
     <<"%", "x">>, <<"[", "x", "]">>, <<"A">>, <<"B">>, <<"x", "$">>}

KillDeathData ==
    {<<Rec("KilledCount", k), Rec("DeathCount", d)>> :
        k \in {5, 10}, d \in {0, 1, 3}}

WinGameData ==
    {<<Rec("WinCount", w), Rec("CompletedCount", g)>> :
        w \in {0, 1, 2}, g \in {0, 2}}

PlayTimeData ==
    {<<Rec("PlayTime.Hour", h), Rec("PlayTime.Min", m), Rec("PlayTime.Sec", 1)>> :
        h \in {0, 1}, m \in {0, 1, 60}}

\* one player with a wide range of scores
SinglePlayerData ==
    {<<Rec("KilledCount", k), Rec("DeathCount", d)>> :
        k \in {-1, 0, 1, 4, 7}, d \in {-1, 0, 1, 2, 3}}
    \cup
    {<<Rec("PlayTime.Hour", h), Rec("PlayTime.Min", m), Rec("PlayTime.Sec", sec)>> :
        h \in {0, 1, 9, 10, 100}, m \in {0, 1, 59, 60, 61},
        sec \in {-1, 0, 1, 59, 60, 61}}

\* a roster longer than the saved slice
MaxListed == 11

LongRoster(n, pool) ==
    \E vs \in [1..n -> pool] :
        player_scores_json =
            Some([i \in 1..n |-> [key |-> <<"P">> \o Decimal(i),
                                  value |-> vs[i]]])

InitRank ==
    /\ scoreboard_json = EmptyDict
    /\ scoreboard_data = EmptyDict
    /\ grouped_scores = None
    /\ \/ player_scores_json = None
       \/ \E n \in (MaxListed - 2)..MaxListed :
              LongRoster(n, {<<Rec("KilledCount", n)>>,
                             <<Rec("KilledCount", n), Rec("DeathCount", 1)>>})
       \/ FileHolds(PlayerNames, KillDeathData)
       \/ FileHolds(PlayerNames, WinGameData)
       \/ FileHolds(PlayerNames, PlayTimeData)
       \/ FileHolds(RosterNames, {<<Rec("KilledCount", 1)>>})
       \/ FileHolds({<<"A">>}, SinglePlayerData)
    /\ rankings = None
    /\ error = None
    /\ OthersIdle
    /\ pc = "grouped_file"

\* rankings, error = generate_rankings(player_scores_json_path)
GenerateRankings ==
    /\ pc = "grouped_file"
    /\ LET r == generate_rankings(player_scores_json)
       IN  /\ rankings' = r.rankings
           /\ error' = r.error
    /\ pc' = "ranked"
    /\ UNCHANGED <<scoreboard_json, scoreboard_data, grouped_scores,
                   player_scores_json, othervars>>

\* success, save_error = save_rankings(rankings), as rank_command calls it
\* on the rankings it got
SaveRankings ==
    /\ pc = "ranked"
    /\ rankings # None
    /\ \E writable \in BOOLEAN :
           LET r == save_rankings_to_json(rankings[1], rankings_json, now,
                                          writable)
           IN  /\ rankings_json' = r.file
               /\ saved' = Some(r.result)
               /\ rankings' = Some(r.rankings)
    /\ pc' = "saved"
    /\ UNCHANGED <<scoreboard_json, scoreboard_data, grouped_scores,
                   player_scores_json, error, statsvars, nbtvars,
                   refreshvars, limitvars>>

NextRank == GenerateRankings \/ SaveRankings

SpecRank == InitRank /\ [][NextRank]_vars

----------------------------------------------------------------------------
(* Claims about generate_rankings                                          *)

\* the grouped-scores mapping read from the file, and the returned lists
File == player_scores_json[1]
Rankings == rankings[1]
Succeeded == pc = "ranked" /\ rankings # None

SentinelPrefixes == {"$", "#", "%", "["}

\* the entities of the roster: named, and not marked by a sentinel prefix
Eligible(name) == name # <<>> /\ name[1] \notin SentinelPrefixes

\* the place of an entity in the iteration order of the mapping
InputPos(name) == CHOOSE i \in 1..Len(File) : File[i].key = name

StatsOf(name) == calculate_player_stats(Lookup(File, name))

\* x = y and x > y between the values of one category
SameValue(x, y, key) ==
    IF key \in FloatCategories THEN x.num * y.den = y.num * x.den ELSE x = y
Greater(x, y, key) ==
    IF key \in FloatCategories THEN x.num * y.den > y.num * x.den ELSE x > y

Descending == {"play_time", "games_played", "wins", "kills", "kd_ratio", "win_rate"}

Players(list) == [i \in 1..Len(list) |-> list[i].player]

\* C5: the lists of play_time, games_played, wins, kills, kd_ratio and
\* win_rate are ordered by descending value, and entities of equal value
\* keep the relative order they have in the grouped-scores mapping.
C5_DescendingStable ==
    Succeeded =>
        \A key \in Descending :
            \A i, j \in 1..Len(Rankings[key]) :
                i < j =>
                    LET a == Rankings[key][i]
                        b == Rankings[key][j]
                    IN  \/ Greater(a.value, b.value, key)
                        \/ /\ SameValue(a.value, b.value, key)
                           /\ InputPos(a.player) < InputPos(b.player)

C5_Witness ==
    /\ Succeeded
    /\ Keys(File) = << <<"A">>, <<"B">>, <<"C">> >>
    /\ StatsOf(<<"A">>).kills = 5
    /\ StatsOf(<<"B">>).kills = 10
    /\ StatsOf(<<"C">>).kills = 5
    /\ Players(Rankings["kills"]) = << <<"B">>, <<"A">>, <<"C">> >>

\* C6: the deaths list is ordered by ascending value with entities of equal
\* deaths in the order of the mapping, and no other list has an entry of
\* smaller value before one of greater value.
C6_DeathsAscending ==
    Succeeded =>
        /\ \A i, j \in 1..Len(Rankings["deaths"]) :
               i < j =>
                   LET a == Rankings["deaths"][i]
                       b == Rankings["deaths"][j]
                   IN  \/ a.value < b.value
                       \/ /\ a.value = b.value
                          /\ InputPos(a.player) < InputPos(b.player)
        /\ \A key \in Descending :
               \A i, j \in 1..Len(Rankings[key]) :
                   i < j => ~Greater(Rankings[key][j].value,
                                     Rankings[key][i].value, key)

C6_Witness ==
    /\ Succeeded
    /\ Keys(File) = << <<"A">>, <<"B">>, <<"C">> >>
    /\ StatsOf(<<"A">>).deaths = 3
    /\ StatsOf(<<"B">>).deaths = 0
    /\ StatsOf(<<"C">>).deaths = 1
    /\ Players(Rankings["deaths"]) = << <<"B">>, <<"C">>, <<"A">> >>

\* C7: no entity with an empty name or a name starting with '$', '#', '%'
\* or '[' is the player of an entry of any of the seven lists.
C7_SentinelsAbsent ==
    Succeeded =>
        \A c \in 1..Len(Categories) :
            \A i \in 1..Len(Rankings[Categories[c]]) :
                Eligible(Rankings[Categories[c]][i].player)

C7_Witness ==
    /\ Succeeded
    /\ <<"$", "C", "O", "N", "S", "T", "-", "x">> \in KeySet(File)
    /\ <<"[", "x", "]">> \in KeySet(File)
    /\ \A c \in 1..Len(Categories) :
           Players(Rankings[Categories[c]]) = << <<"A">> >>

\* C8: when the mapping is empty or holds only entities with an empty or
\* sentinel-prefixed name, generate_rankings returns no rankings and the
\* empty-roster error.
C8_EmptyRoster ==
    (pc = "ranked" /\ player_scores_json # None
       /\ \A i \in 1..Len(File) : ~Eligible(File[i].key))
    => (rankings = None /\ error = Some(NoPlayersError))

C8_Witness ==
    /\ pc = "ranked"
    /\ player_scores_json # None
    /\ Len(File) = 3
    /\ \A i \in 1..Len(File) : ~Eligible(File[i].key)
    /\ <<>> \in KeySet(File)
    /\ rankings = None
    /\ error # None

Max(a, b) == IF a >= b THEN a ELSE b

\* C9: whenever the roster is not empty the lists are produced (no division
\* fails), and every kd_ratio is the finite quotient kills / max(deaths, 1).
C9_KdRatio ==
    (pc = "ranked" /\ player_scores_json # None
       /\ \E i \in 1..Len(File) : Eligible(File[i].key))
    => /\ rankings # None
       /\ \A i \in 1..Len(Rankings["kd_ratio"]) :
              LET e  == Rankings["kd_ratio"][i]
                  st == StatsOf(e.player)
              IN  /\ e.value.den > 0
                  /\ e.value.num * Max(st.deaths, 1) = st.kills * e.value.den

C9_Witness ==
    /\ Succeeded
    /\ \E i \in 1..Len(Rankings["kd_ratio"]) :
           LET e == Rankings["kd_ratio"][i]
           IN  /\ StatsOf(e.player).kills = 4
               /\ StatsOf(e.player).deaths = 0
               /\ e.value = [num |-> 4, den |-> 1]

IsDigit(ch) == \E d \in 1..10 : DigitChars[d] = ch
DigitValue(ch) == (CHOOSE d \in 1..10 : DigitChars[d] = ch) - 1

\* the number written by a sequence of digits
RECURSIVE ParseDecimal(_)
ParseDecimal(chars) ==
    IF chars = <<>> THEN 0
    ELSE 10 * ParseDecimal(SubSeq(chars, 1, Len(chars) - 1))
           + DigitValue(chars[Len(chars)])

\* text is n in decimal digits, padded with zeros to two digits and no further
TwoDigitsOrMore(text, n) ==
    /\ Len(text) >= 2
    /\ \A k \in 1..Len(text) : IsDigit(text[k])
    /\ ParseDecimal(text) = n
    /\ Len(text) > 2 => text[1] # "0"

\* C10: every play_time entry of value total >= 0 has hours = total div
\* 3600, minutes = (total mod 3600) div 60 and seconds = total mod 60, so
\* that they add up to total with minutes and seconds in 0..59, and its
\* formatted text is HH:MM:SS with every part padded to two digits.
C10_PlayTimeFields ==
    Succeeded =>
        \A i \in 1..Len(Rankings["play_time"]) :
            LET e == Rankings["play_time"][i]
                f == e.formatted
                n == Len(f)
            IN  e.value >= 0 =>
                  /\ e.hours = e.value \div 3600
                  /\ e.minutes = (e.value % 3600) \div 60
                  /\ e.seconds = e.value % 60
                  /\ e.hours * 3600 + e.minutes * 60 + e.seconds = e.value
                  /\ e.minutes \in 0..59
                  /\ e.seconds \in 0..59
                  /\ n >= 8
                  /\ f[n - 2] = ":"
                  /\ f[n - 5] = ":"
                  /\ TwoDigitsOrMore(SubSeq(f, 1, n - 6), e.hours)
                  /\ TwoDigitsOrMore(SubSeq(f, n - 4, n - 3), e.minutes)
                  /\ TwoDigitsOrMore(SubSeq(f, n - 1, n), e.seconds)

C10_Witness ==
    /\ Succeeded
    /\ \E i \in 1..Len(Rankings["play_time"]) :
           /\ Rankings["play_time"][i].value = 3661
           /\ Rankings["play_time"][i].formatted
                = <<"0", "1", ":", "0", "1", ":", "0", "1">>
    /\ \E i \in 1..Len(File) : Len(File[i].value) = 3

\* C21: whenever generate_rankings succeeds, each of the seven lists holds
\* every eligible entity of the grouped-scores file exactly once and nothing
\* else, so the seven lists have the same length.
C21_SameRoster ==
    Succeeded =>
        LET roster == {File[i].key : i \in 1..Len(File)} \cap
                          {name \in KeySet(File) : Eligible(name)}
        IN  \A c \in 1..Len(Categories) :
                LET list == Players(Rankings[Categories[c]])
                IN  /\ Len(list) = Cardinality(roster)
                    /\ {list[i] : i \in 1..Len(list)} = roster
                    /\ Len(list) = Len(Rankings["play_time"])

C21_Witness ==
    /\ Succeeded
    /\ Len(File) = 3
    /\ Keys(File) = << <<"B">>, <<"#", "x">>, <<"A">> >>
    /\ \A c \in 1..Len(Categories) :
           /\ Len(Rankings[Categories[c]]) = 2
           /\ {Rankings[Categories[c]][i].player : i \in 1..2}
                = {<<"A">>, <<"B">>}

\* C18: save_rankings_to_json persists, for every category, the first
\* min(10, n) entries of the in-memory ranked list of n entries, in the same
\* order; the in-memory rankings are left as generate_rankings made them and
\* still hold all n entries.
C18_TopTenSaved ==
    pc = "saved" =>
        LET full == generate_rankings(player_scores_json).rankings[1]
        IN  /\ rankings = Some(full)
            /\ saved[1].success =>
                 \A c \in 1..Len(Categories) :
                    LET key  == Categories[c]
                        n    == Cardinality({i \in 1..Len(File) :
                                                Eligible(File[i].key)})
                        kept == rankings_json[1].rankings[key]
                    IN  /\ Len(Rankings[key]) = n
                        /\ Len(kept) = IF n < 10 THEN n ELSE 10
                        /\ \A i \in 1..Len(kept) : kept[i] = Rankings[key][i]

C18_Witness ==
    /\ pc = "saved"
    /\ saved[1].success
    /\ Len(File) = 11
    /\ Len(Rankings["deaths"]) = 11
    /\ Len(rankings_json[1].rankings["deaths"]) = 10
    /\ Rankings["deaths"][1].value = 0
    /\ Rankings["deaths"][11].value = 1
    /\ \A i \in 1..10 :
          rankings_json[1].rankings["deaths"][i].player
              # Rankings["deaths"][11].player

----------------------------------------------------------------------------
(* calculate_player_stats on one player's records                          *)

MaxEntries == 3

Objectives ==
    <<"PlayTime.Hour", "PlayTime.Min", "PlayTime.Sec", "CompletedCount",
      "WinCount", "KilledCount", "DeathCount">>

\* records of every known objective, of an unknown one, without Objective,
\* without Score, with a negative Score, and the empty record
StatRecords ==
    {Rec(Objectives[o], sc) : o \in 1..Len(Objectives), sc \in {2, 30}}
      \cup {Rec("KilledCount", -1), Rec("PlayTime.Sec", -1),
            Rec("Level", 2), [Score |-> 2], [Objective |-> "PlayTime.Hour"],
            EmptyDict}

InitStats ==
    /\ scoreboard_json = EmptyDict
    /\ scoreboard_data = EmptyDict
    /\ grouped_scores = None
    /\ NoRankingState
    /\ \E n \in 0..MaxEntries : \E l \in [1..n -> StatRecords] : entries = l
    /\ aggregate = None
    /\ NoNbtCall
    /\ NoPluginCall
    /\ pc = "records"

\* stats = calculate_player_stats(player_data)
CalculatePlayerStats ==
    /\ pc = "records"
    /\ aggregate' = Some(calculate_player_stats(entries))
    /\ pc' = "aggregated"
    /\ UNCHANGED <<scoreboard_json, scoreboard_data, grouped_scores,
                   player_scores_json, rankings, error, entries, nbtvars,
                   pluginvars>>

NextStats == CalculatePlayerStats

SpecStats == InitStats /\ [][NextStats]_vars

----------------------------------------------------------------------------
(* Claims about calculate_player_stats                                     *)

Stats == aggregate[1]

ObjectiveOf(entry) == IF "Objective" \in DOMAIN entry THEN entry.Objective ELSE ""
ScoreOf(entry) == IF "Score" \in DOMAIN entry THEN entry.Score ELSE 0

\* the seconds one record stands for
SecondsOf(entry) ==
    IF ObjectiveOf(entry) = "PlayTime.Hour" THEN ScoreOf(entry) * 3600
    ELSE IF ObjectiveOf(entry) = "PlayTime.Min" THEN ScoreOf(entry) * 60
    ELSE IF ObjectiveOf(entry) = "PlayTime.Sec" THEN ScoreOf(entry)
    ELSE 0

\* the sum of the seconds of the records at the indices in a set
RECURSIVE SumSeconds(_)
SumSeconds(indices) ==
    IF indices = {} THEN 0
    ELSE LET i == CHOOSE k \in indices : TRUE
         IN  SecondsOf(entries[i]) + SumSeconds(indices \ {i})

\* the indices of the records that carry an objective
Carrying(objective) ==
    {i \in 1..Len(entries) : ObjectiveOf(entries[i]) = objective}

FieldOf ==
    [CompletedCount |-> "games_played", WinCount |-> "wins",
     KilledCount |-> "kills", DeathCount |-> "deaths"]

\* C11: play_time_seconds is the sum, over all records in any order and
\* number, of Score*3600 for PlayTime.Hour, Score*60 for PlayTime.Min and
\* Score for PlayTime.Sec.
C11_PlayTimeAdditive ==
    pc = "aggregated" =>
        Stats.play_time_seconds = SumSeconds(1..Len(entries))

C11_Witness ==
    /\ pc = "aggregated"
    /\ entries = <<Rec("PlayTime.Hour", 2), Rec("PlayTime.Min", 30)>>
    /\ Stats.play_time_seconds = 9000

\* C12: games_played, wins, kills and deaths each hold the Score of the
\* last record that carries CompletedCount, WinCount, KilledCount and
\* DeathCount respectively.
C12_LastWriteWins ==
    pc = "aggregated" =>
        \A objective \in DOMAIN FieldOf :
            Carrying(objective) # {} =>
                LET last == CHOOSE i \in Carrying(objective) :
                                \A k \in Carrying(objective) : k <= i
                IN  Stats[FieldOf[objective]] = ScoreOf(entries[last])

C12_Witness ==
    /\ pc = "aggregated"
    /\ entries = <<Rec("KilledCount", 30), Rec("WinCount", 2),
                       Rec("KilledCount", 2)>>
    /\ Stats.kills = 2
    /\ Stats.wins = 2

\* C13: a field is 0 whenever no record carries an objective mapped to it;
\* in particular the empty list gives all zeros and records with an
\* unknown or missing Objective change nothing.
C13_ZeroDefault ==
    pc = "aggregated" =>
        /\ \A objective \in DOMAIN FieldOf :
               Carrying(objective) = {} => Stats[FieldOf[objective]] = 0
        /\ (Carrying("PlayTime.Hour") \cup Carrying("PlayTime.Min")
              \cup Carrying("PlayTime.Sec") = {})
           => Stats.play_time_seconds = 0

C13_Witness ==
    /\ pc = "aggregated"
    /\ entries = <<Rec("Level", 2), [Score |-> 2], Rec("WinCount", 30)>>
    /\ Stats = [ZeroStats EXCEPT !.wins = 30]

NonNegative(st) ==
    /\ st.play_time_seconds >= 0
    /\ st.games_played >= 0
    /\ st.wins >= 0
    /\ st.kills >= 0
    /\ st.deaths >= 0

\* C14 as stated: every PlayerStats has all five fields >= 0, for every
\* sequence of records with integer Scores.
C14_AlwaysNonNegative ==
    pc = "aggregated" => NonNegative(Stats)

\* C14 as amended: all five fields are >= 0 when no record has a negative
\* Score.
C14_NonNegativeScores ==
    (pc = "aggregated"
       /\ \A i \in 1..Len(entries) : ScoreOf(entries[i]) >= 0)
    => NonNegative(Stats)

C14_Witness ==
    /\ pc = "aggregated"
    /\ entries = <<Rec("DeathCount", 2), Rec("PlayTime.Sec", 30),
                       Rec("CompletedCount", 30)>>
    /\ Stats.deaths = 2
    /\ Stats.play_time_seconds = 30

----------------------------------------------------------------------------
(* nbt_to_json on a decoded tree                                           *)

MaxItems == 2

\* scalars and arrays
NbtLeaves ==
    {Obj("Int", 5), Obj("Byte", 1), Obj("Long", -12), Obj("Double", 3),
     Obj("String", <<"a", "b">>), Obj("IntArray", <<1, 2>>)}

\* lists of leaves of one tag, as the format has them
NbtLists ==
    {Obj("List", l) :
        l \in UNION {{q \in [1..n -> NbtLeaves] :
                         \A i, j \in 1..n : q[i].tag = q[j].tag}
                     : n \in 0..MaxItems}}

NbtInner ==
    NbtLeaves \cup NbtLists
      \cup {Obj("Compound", <<[key |-> <<"N", "a", "m", "e">>, value |-> v]>>) :
               v \in NbtLeaves}

\* the root of a file is a Compound
NbtRoots ==
    {Obj("Compound", <<>>)}
      \cup {Obj("Compound", <<[key |-> <<"d", "a", "t", "a">>, value |-> v]>>) :
               v \in NbtInner}
      \cup {Obj("Compound", <<[key |-> <<"d", "a", "t", "a">>, value |-> v],
                              [key |-> <<"V">>, value |-> w]>>) :
               v \in NbtInner, w \in NbtLeaves}

InitNbt ==
    /\ scoreboard_json = EmptyDict
    /\ scoreboard_data = EmptyDict
    /\ grouped_scores = None
    /\ NoRankingState
    /\ NoStatsCall
    /\ NoPluginCall
    /\ nbt_data \in {Some(v) : v \in NbtInner \cup NbtRoots}
    /\ projected = None
    /\ reprojected = None
    /\ pc = "decoded"

\* data = nbt_to_json(nbt_file)
Project ==
    /\ pc = "decoded"
    /\ projected' = Some(nbt_to_json(nbt_data[1]))
    /\ pc' = "projected"
    /\ UNCHANGED <<scoreboard_json, scoreboard_data, grouped_scores,
                   player_scores_json, rankings, error, statsvars,
                   nbt_data, reprojected, pluginvars>>

\* nbt_to_json applied to its own output
Reproject ==
    /\ pc = "projected"
    /\ reprojected' = Some(nbt_to_json(projected[1]))
    /\ pc' = "reprojected"
    /\ UNCHANGED <<scoreboard_json, scoreboard_data, grouped_scores,
                   player_scores_json, rankings, error, statsvars,
                   nbt_data, projected, pluginvars>>

NextNbt == Project \/ Reproject

SpecNbt == InitNbt /\ [][NextNbt]_vars

----------------------------------------------------------------------------
(* Claims about nbt_to_json                                                *)

\* C15: nbt_to_json is idempotent: applied to a value that is its own
\* output it returns that value unchanged,
\* nbt_to_json(nbt_to_json(x)) = nbt_to_json(x).
C15_Idempotent ==
    pc = "reprojected" => reprojected = projected


----------------------------------------------------------------------------
(* main.py: DataManager.update_data_files and its callers;                 *)
(* api/generate_player_stats_image.py: main                                *)
(*                                                                         *)
(* The content of scoreboard.dat is written as the value nbt_to_json gives *)
(* for it, which is what export_to_json stores in scoreboard.json.         *)

ApiUnavailableError == "api modules unavailable"
UpdateFailedError == "data file update failed"

\* update_data_files() at clock reading t on the files dat, json (with
\* st_mtime mtime) and grouped (with st_mtime gmtime).  api is API_AVAILABLE; writable says whether
\* export_to_json can write the grouped file.  returned is "True", "False",
\* or "SystemExit" when sys.exit(1) of process_dat_to_json or of
\* process_json_to_grouped leaves the call: SystemExit is no Exception, so
\* "except Exception" lets it pass.
update_data_files(dat, json, mtime, grouped, gmtime, t, api, writable) ==
    LET unchanged(result) ==
            [returned |-> result, scoreboard_json |-> json,
             json_mtime |-> mtime, player_scores_json |-> grouped,
             grouped_mtime |-> gmtime]
        update_needed ==
            \/ mtime = None
            \/ dat # None /\ dat[1].mtime > mtime[1]
    IN  IF ~api THEN unchanged("False")
        ELSE IF ~update_needed THEN unchanged("True")
        \* process_dat_to_json: FileNotFoundError or a load error is caught
        \* and answered by sys.exit(1)
        ELSE IF dat = None \/ dat[1].data = None THEN unchanged("SystemExit")
        ELSE LET scoreboard == dat[1].data[1]
                 grouped_new == group_scores_by_player(scoreboard).grouped
             IN  \* process_json_to_grouped
                 IF ~Truthy(grouped_new)
                 THEN [returned |-> "SystemExit",
                       scoreboard_json |-> scoreboard,
                       json_mtime |-> Some(t),
                       player_scores_json |-> grouped,
                       grouped_mtime |-> gmtime]
                 ELSE IF ~writable
                 THEN [returned |-> "False",
                       scoreboard_json |-> scoreboard,
                       json_mtime |-> Some(t),
                       player_scores_json |-> grouped,
                       grouped_mtime |-> gmtime]
                 ELSE [returned |-> "True",
                       scoreboard_json |-> scoreboard,
                       json_mtime |-> Some(t),
                       player_scores_json |-> Some(grouped_new),
                       grouped_mtime |-> Some(t)]

\* the characters of the modelled names in the order of their code points
Alphabet ==
    <<"#", "$", "%", "-", "0", "1", "2", "3", "4", "5", "6", "7", "8", "9",
      "A", "B", "C", "D", "E", "F", "N", "O", "P", "S", "T", "Z", "[", "]",
      "x", "jia", "wei", "wan", "zhi">>

Ord(ch) == CHOOSE i \in 1..Len(Alphabet) : Alphabet[i] = ch

\* a < b on str
RECURSIVE StrLess(_, _)
StrLess(a, b) ==
    IF b = <<>> THEN FALSE
    ELSE IF a = <<>> THEN TRUE
    ELSE IF a[1] # b[1] THEN Ord(a[1]) < Ord(b[1])
    ELSE StrLess(Tail(a), Tail(b))

RECURSIVE InsertName(_, _)
InsertName(sorted, name) ==
    IF sorted = <<>> THEN <<name>>
    ELSE IF StrLess(name, sorted[1]) THEN <<name>> \o sorted
    ELSE <<sorted[1]>> \o InsertName(Tail(sorted), name)

\* sorted(players)
RECURSIVE Sorted(_, _)
Sorted(list, sorted) ==
    IF list = <<>> THEN sorted
    ELSE Sorted(Tail(list), InsertName(sorted, list[1]))

\* the condition of the loop of get_player_list
IsListedPlayer(name) ==
    /\ Truthy(name)
    /\ ~StartsWith(name, "$")
    /\ ~StartsWith(name, "#")
    /\ ~StartsWith(name, "%")
    /\ ~StartsWith(name, "[")

\* the loop of get_player_list over player_data.keys()
RECURSIVE ListedLoop(_, _, _)
ListedLoop(player_data, i, listed) ==
    IF i > Len(player_data) THEN listed
    ELSE ListedLoop(player_data, i + 1,
            IF IsListedPlayer(player_data[i].key)
            THEN Append(listed, player_data[i].key)
            ELSE listed)

\* the condition of the loop of main that prints the available players
IsAvailablePlayer(name) ==
    /\ Truthy(name)
    /\ ~StartsWith(name, "$")
    /\ ~StartsWith(name, "#")
    /\ ~StartsWith(name, "%")

\* the names that main prints, in the order of player_data.keys()
RECURSIVE AvailableLoop(_, _, _)
AvailableLoop(player_data, i, printed) ==
    IF i > Len(player_data) THEN printed
    ELSE AvailableLoop(player_data, i + 1,
            IF IsAvailablePlayer(player_data[i].key)
            THEN Append(printed, player_data[i].key)
            ELSE printed)


----------------------------------------------------------------------------
(* The plugin serving requests while the game server rewrites              *)
(* scoreboard.dat                                                          *)

MaxClock == 2

\* a scoreboard with one KilledCount record for each name
ScoreboardOf(names) ==
    [data |-> [PlayerScores |->
        [i \in 1..Len(names) |-> MakeEntry(Some(names[i]), Some(0), 1)]]]

\* what scoreboard.dat can hold: bytes that nbtlib cannot load, a tree
\* without PlayerScores, an empty PlayerScores, and rosters
DatContents ==
    <<None,
      Some([data |-> EmptyDict]),
      Some(ScoreboardOf(<<>>)),
      Some(ScoreboardOf(<< <<"B">>, <<"[", "x", "]">>, <<"A">> >>)),
      Some(ScoreboardOf(<< <<"$", "x">> >>)),
      Some(ScoreboardOf(<< <<"Z">>, <<"#", "x">>, <<"%", "x">>, <<"A">> >>))>>

InitRefresh ==
    /\ scoreboard_json = EmptyDict
    /\ scoreboard_data = EmptyDict
    /\ grouped_scores = None
    /\ NoRankingState
    /\ NoStatsCall
    /\ NoNbtCall
    /\ NoSave
    /\ NoLimit
    /\ query_interval = DefaultQueryInterval
    /\ \/ scoreboard_dat = None
       \/ \E c \in 1..Len(DatContents) :
              scoreboard_dat = Some([data |-> DatContents[c], mtime |-> 0])
    /\ json_mtime = None
    /\ grouped_mtime = None
    /\ now = 0
    /\ API_AVAILABLE \in BOOLEAN
    /\ returned = "none"
    /\ caller = "none"
    /\ players = None
    /\ turn = FALSE
    /\ pc = "serving"

\* time passes
Tick ==
    /\ pc = "serving"
    /\ now < MaxClock
    /\ now' = now + 1
    /\ UNCHANGED <<scoreboard_json, scoreboard_data, grouped_scores,
                   player_scores_json, rankings, error, pc, statsvars,
                   nbtvars, savevars, limitvars, scoreboard_dat, json_mtime,
                   grouped_mtime, API_AVAILABLE, returned, caller, players,
                   turn>>

\* the game server saves scoreboard.dat
WriteDat ==
    /\ pc = "serving"
    /\ \E c \in 1..Len(DatContents) :
           scoreboard_dat' = Some([data |-> DatContents[c], mtime |-> now])
    /\ UNCHANGED <<scoreboard_json, scoreboard_data, grouped_scores,
                   player_scores_json, rankings, error, pc, statsvars,
                   nbtvars, savevars, limitvars, json_mtime, grouped_mtime, now,
                   API_AVAILABLE, returned, caller, players,
                   turn>>

\* rankings, error = self.rankings_manager.generate_rankings(), the call
\* that rank_command makes outside any try
ManagerGenerateRankings ==
    /\ pc = "serving"
    /\ caller' = "rank"
    /\ turn' = ~turn
    /\ players' = None
    /\ IF ~API_AVAILABLE
       THEN /\ rankings' = None
            /\ error' = Some(ApiUnavailableError)
            /\ returned' = "none"
            /\ UNCHANGED <<scoreboard_json, json_mtime, player_scores_json,
                           grouped_mtime, pc>>
       ELSE \E writable \in BOOLEAN :
            LET u == update_data_files(scoreboard_dat, scoreboard_json,
                                       json_mtime, player_scores_json,
                                       grouped_mtime, now, API_AVAILABLE,
                                       writable)
                r == generate_rankings(u.player_scores_json)
            IN  /\ scoreboard_json' = u.scoreboard_json
                /\ json_mtime' = u.json_mtime
                /\ player_scores_json' = u.player_scores_json
                /\ grouped_mtime' = u.grouped_mtime
                /\ returned' = u.returned
                /\ IF u.returned = "SystemExit"
                   THEN /\ pc' = "SystemExit"
                        /\ rankings' = None
                        /\ error' = None
                   ELSE IF u.returned = "False"
                   THEN /\ pc' = pc
                        /\ rankings' = None
                        /\ error' = Some(UpdateFailedError)
                   ELSE /\ pc' = pc
                        /\ rankings' = r.rankings
                        /\ error' = r.error
    /\ UNCHANGED <<scoreboard_data, grouped_scores, statsvars, nbtvars,
                   savevars, limitvars, scoreboard_dat, now, API_AVAILABLE>>

\* DataManager.get_player_list()
GetPlayerList ==
    /\ pc = "serving"
    /\ caller' = "get_player_list"
    /\ turn' = ~turn
    /\ rankings' = None
    /\ error' = None
    /\ IF player_scores_json # None
       THEN /\ players' = Some(Sorted(ListedLoop(player_scores_json[1], 1,
                                                 <<>>), <<>>))
            /\ returned' = "none"
            /\ UNCHANGED <<scoreboard_json, json_mtime, player_scores_json,
                           grouped_mtime, pc>>
       ELSE \E writable \in BOOLEAN :
            LET u == update_data_files(scoreboard_dat, scoreboard_json,
                                       json_mtime, player_scores_json,
                                       grouped_mtime, now, API_AVAILABLE,
                                       writable)
            IN  /\ scoreboard_json' = u.scoreboard_json
                /\ json_mtime' = u.json_mtime
                /\ player_scores_json' = u.player_scores_json
                /\ grouped_mtime' = u.grouped_mtime
                /\ returned' = u.returned
                /\ IF u.returned = "SystemExit"
                   THEN /\ pc' = "SystemExit"
                        /\ players' = None
                   ELSE IF u.returned = "False"
                   THEN /\ pc' = pc
                        /\ players' = Some(<<>>)
                   \* open() raises FileNotFoundError, caught by the except
                   ELSE IF u.player_scores_json = None
                   THEN /\ pc' = pc
                        /\ players' = Some(<<>>)
                   ELSE /\ pc' = pc
                        /\ players' =
                             Some(Sorted(ListedLoop(u.player_scores_json[1],
                                                    1, <<>>), <<>>))
    /\ UNCHANGED <<scoreboard_data, grouped_scores, statsvars, nbtvars,
                   savevars, limitvars, scoreboard_dat, now, API_AVAILABLE>>

\* python generate_player_stats_image.py <player_name>, run on the plugin's
\* grouped file: load_player_data exits when the file is missing, and main
\* prints the available players when player_name is not in the file
CliMain ==
    /\ pc = "serving"
    /\ caller' = "cli"
    /\ turn' = ~turn
    /\ rankings' = None
    /\ error' = None
    /\ returned' = "none"
    /\ \E player_name \in {<<"A">>, <<"C">>} :
           IF player_scores_json = None
           THEN players' = None
           ELSE IF player_name \in KeySet(player_scores_json[1])
           THEN players' = None
           ELSE players' = Some(AvailableLoop(player_scores_json[1], 1, <<>>))
    /\ UNCHANGED <<scoreboard_json, scoreboard_data, grouped_scores,
                   player_scores_json, pc, statsvars, nbtvars, savevars,
                   limitvars,
                   scoreboard_dat, json_mtime, grouped_mtime, now,
                   API_AVAILABLE>>

\* a data file is removed
DeleteFile ==
    /\ pc = "serving"
    /\ \/ /\ scoreboard_dat # None
          /\ scoreboard_dat' = None
          /\ UNCHANGED <<scoreboard_json, json_mtime, player_scores_json,
                         grouped_mtime>>
       \/ /\ json_mtime # None
          /\ scoreboard_json' = EmptyDict
          /\ json_mtime' = None
          /\ UNCHANGED <<scoreboard_dat, player_scores_json, grouped_mtime>>
       \/ /\ player_scores_json # None
          /\ player_scores_json' = None
          /\ grouped_mtime' = None
          /\ UNCHANGED <<scoreboard_dat, scoreboard_json, json_mtime>>
    /\ UNCHANGED <<scoreboard_data, grouped_scores, rankings, error, pc,
                   statsvars, nbtvars, savevars, limitvars, now,
                   API_AVAILABLE,
                   returned, caller, players, turn>>

\* the host is started again after an exit: the plugin is constructed anew
\* on the files as they were left
Restart ==
    /\ pc = "SystemExit"
    /\ pc' = "serving"
    /\ returned' = "none"
    /\ caller' = "none"
    /\ rankings' = None
    /\ error' = None
    /\ players' = None
    /\ last_query_time' = EmptyDict
    /\ reply' = None
    /\ last_allowed' = [s \in Sessions |-> None]
    /\ promised' = [s \in Sessions |-> {}]
    /\ UNCHANGED <<scoreboard_json, scoreboard_data, grouped_scores,
                   player_scores_json, statsvars, nbtvars, savevars,
                   scoreboard_dat, json_mtime, grouped_mtime, now,
                   API_AVAILABLE, turn, query_interval>>

NextRefresh ==
    \/ Tick
    \/ WriteDat
    \/ DeleteFile
    \/ Restart
    \/ ManagerGenerateRankings
    \/ GetPlayerList
    \/ CliMain

SpecRefresh == InitRefresh /\ [][NextRefresh]_vars

----------------------------------------------------------------------------
(* Claims about the refresh and the player listings                        *)

\* C16: a failure of the refresh (scoreboard.dat missing or unreadable, an
\* empty PlayerScores) becomes a failure result: update_data_files returns
\* True or False and never leaves by an exit, the rank handler gets an error
\* message for False, and nothing escapes into the host process.
C16_FailuresContained ==
    /\ returned \in {"none", "True", "False"}
    /\ pc = "serving"
    /\ (caller = "rank" /\ returned = "False") =>
           (rankings = None /\ error # None)

\* C19: every listing of players, from DataManager.get_player_list and from
\* the command-line list of available players, holds no empty name and no
\* name that starts with '$', '#', '%' or '['.
C19_ListingsExcludeSentinels ==
    players # None =>
        \A i \in 1..Len(players[1]) : Eligible(players[1][i])

\* C25: whenever update_data_files returns True while scoreboard.dat
\* exists, player_scores_grouped.json exists and was written from a
\* scoreboard.json that is at least as new as scoreboard.dat.
C25_FreshAfterTrue ==
    [][(turn' # turn /\ returned' = "True" /\ scoreboard_dat' # None) =>
          /\ player_scores_json' # None
          /\ grouped_mtime' # None
          /\ grouped_mtime'[1] >= scoreboard_dat'[1].mtime]_vars

----------------------------------------------------------------------------
(* main.py: the command handlers of LPStatsPlugin                          *)

MaxInterval == 1

\* user_id = event.session_id: the key of the limiter for a command
UserIdPerCommand(session_id, command) == <<session_id, command>>

UserId(session_id, command) == session_id

\* self.data_manager.update_data_files() on the files as they are
Update(writable) ==
    update_data_files(scoreboard_dat, scoreboard_json, json_mtime,
                      player_scores_json, grouped_mtime, now, API_AVAILABLE,
                      writable)

\* what a handler leaves when it does not get to the data files
Untouched(outcome) ==
    [outcome |-> outcome, image |-> None, pc |-> pc, returned |-> "none",
     scoreboard_json |-> scoreboard_json, json_mtime |-> json_mtime,
     player_scores_json |-> player_scores_json,
     grouped_mtime |-> grouped_mtime,
     rankings |-> None, error |-> None,
     rankings_json |-> rankings_json, saved |-> None]

\* what a handler leaves after update_data_files ended as u
Refreshed(u, outcome) ==
    [Untouched(outcome) EXCEPT
        !.returned = u.returned,
        !.scoreboard_json = u.scoreboard_json,
        !.json_mtime = u.json_mtime,
        !.player_scores_json = u.player_scores_json,
        !.grouped_mtime = u.grouped_mtime]

\* stats_command after the limiter allowed the query: the help text
\* without a player name, else generate_player_stats_image(player_name);
\* rendered says whether generate_stats_image and image.save succeed
StatsBody(player_name, writable, rendered) ==
    IF player_name = None THEN Untouched("help")
    ELSE IF ~API_AVAILABLE THEN Untouched("error")
    ELSE LET u == Update(writable)
             file == u.player_scores_json
             \* get_player_data(player_name)
             player_data ==
                 IF file = None THEN None
                 ELSE IF player_name[1] \in KeySet(file[1])
                 THEN Some(Lookup(file[1], player_name[1]))
                 ELSE None
         IN  IF u.returned = "SystemExit"
             THEN [Refreshed(u, "SystemExit") EXCEPT !.pc = "SystemExit"]
             ELSE IF u.returned = "False" THEN Refreshed(u, "error")
             ELSE IF player_data = None \/ ~Truthy(player_data[1])
             THEN Refreshed(u, "error")
             ELSE IF ~rendered THEN Refreshed(u, "error")
             ELSE [Refreshed(u, "image") EXCEPT !.image = player_name]

\* rank_command after the limiter allowed the query:
\* rankings_manager.generate_rankings(), then save_rankings(rankings);
\* savable says whether rankings.json can be written
RankBody(writable, savable) ==
    IF ~API_AVAILABLE
    THEN [Untouched("error") EXCEPT !.error = Some(ApiUnavailableError)]
    ELSE LET u == Update(writable)
             r == generate_rankings(u.player_scores_json)
             v == save_rankings_to_json(r.rankings[1], rankings_json, now,
                                        savable)
         IN  IF u.returned = "SystemExit"
             THEN [Refreshed(u, "SystemExit") EXCEPT !.pc = "SystemExit"]
             ELSE IF u.returned = "False"
             THEN [Refreshed(u, "error") EXCEPT
                      !.error = Some(UpdateFailedError)]
             ELSE IF r.error # None
             THEN [Refreshed(u, "error") EXCEPT !.error = r.error]
             ELSE [Refreshed(u, "rankings") EXCEPT
                      !.rankings = Some(v.rankings),
                      !.rankings_json = v.file,
                      !.saved = Some(v.result)]

\* a handler of session s: one _check_query_interval(user_id), the denial
\* message or the body, and the state it leaves
Handle(s, command, c, body) ==
    LET b == IF c.allowed THEN body ELSE Untouched("denied")
    IN  /\ pc = "serving"
        /\ last_query_time' = c.last_query_time
        /\ reply' = Some([session |-> s, command |-> command,
                          allowed |-> c.allowed, remaining |-> c.remaining,
                          last_time |-> c.last_time,
                          outcome |-> b.outcome, image |-> b.image])
        /\ last_allowed' = IF c.allowed
                           THEN [last_allowed EXCEPT ![s] = Some(now)]
                           ELSE last_allowed
        /\ promised' =
             IF c.allowed THEN [promised EXCEPT ![s] = {}]
             ELSE [promised EXCEPT
                      ![s] = @ \cup {now + c.remaining * TicksPerSecond}]
        /\ turn' = ~turn
        /\ caller' = command
        /\ players' = None
        /\ pc' = b.pc
        /\ returned' = b.returned
        /\ scoreboard_json' = b.scoreboard_json
        /\ json_mtime' = b.json_mtime
        /\ player_scores_json' = b.player_scores_json
        /\ grouped_mtime' = b.grouped_mtime
        /\ rankings' = b.rankings
        /\ error' = b.error
        /\ rankings_json' = b.rankings_json
        /\ saved' = b.saved
        /\ UNCHANGED <<scoreboard_data, grouped_scores, statsvars, nbtvars,
                       scoreboard_dat, now, API_AVAILABLE, query_interval>>

\* the player names that /stats is asked for; None is a message without one
Requested == <<None, Some(<<"A">>)>>

\* /stats
StatsCommand(s) ==
    \E p \in 1..Len(Requested) : \E writable, rendered \in BOOLEAN :
        Handle(s, "stats",
               check_query_interval(last_query_time, UserId(s, "stats"),
                                    now, query_interval),
               StatsBody(Requested[p], writable, rendered))

\* the alias of /stats: it rewrites message_str and runs stats_command
StatsChineseCommand(s) ==
    \E p \in 1..Len(Requested) : \E writable, rendered \in BOOLEAN :
        Handle(s, "stats_chinese",
               check_query_interval(last_query_time,
                                    UserId(s, "stats_chinese"),
                                    now, query_interval),
               StatsBody(Requested[p], writable, rendered))

\* /rank
RankCommand(s) ==
    \E writable, savable \in BOOLEAN :
        Handle(s, "rank",
               check_query_interval(last_query_time, UserId(s, "rank"),
                                    now, query_interval),
               RankBody(writable, savable))

\* the alias of /rank: it runs rank_command
RankChineseCommand(s) ==
    \E writable, savable \in BOOLEAN :
        Handle(s, "rank_chinese",
               check_query_interval(last_query_time,
                                    UserId(s, "rank_chinese"),
                                    now, query_interval),
               RankBody(writable, savable))

InitLimit ==
    /\ scoreboard_json = EmptyDict
    /\ scoreboard_data = EmptyDict
    /\ grouped_scores = None
    /\ NoRankingState
    /\ NoStatsCall
    /\ NoNbtCall
    /\ NoSave
    /\ NoLimit
    /\ query_interval \in 0..MaxInterval
    /\ \/ scoreboard_dat = None
       \/ \E names \in {<<>>, << <<"$", "x">> >>, << <<"B">>, <<"A">> >>} :
              scoreboard_dat = Some([data |-> Some(ScoreboardOf(names)),
                                     mtime |-> 0])
    /\ json_mtime = None
    /\ grouped_mtime = None
    /\ now = 0
    /\ API_AVAILABLE \in BOOLEAN
    /\ returned = "none"
    /\ caller = "none"
    /\ players = None
    /\ turn = FALSE
    /\ pc = "serving"

NextLimit ==
    \/ Tick
    \/ Restart
    \/ \E s \in Sessions : StatsCommand(s)
    \/ \E s \in Sessions : StatsChineseCommand(s)
    \/ \E s \in Sessions : RankCommand(s)
    \/ \E s \in Sessions : RankChineseCommand(s)

SpecLimit == InitLimit /\ [][NextLimit]_vars

----------------------------------------------------------------------------
(* Claims about the rate limiter                                           *)

Reply == reply[1]

\* the interval has passed since the last allowed query of s, or there is
\* none
Eligible4(s) ==
    \/ last_allowed[s] = None
    \/ now - last_allowed[s][1] >= query_interval * TicksPerSecond

\* C22: a query of session s is allowed if and only if it is the first query
\* of s or at least query_interval seconds have passed since the last
\* allowed query of s; a denied query leaves the recorded times unchanged
\* and no query changes the recorded time of another session, so two
\* allowed queries of one session are at least query_interval apart.
C22_AllowedIffIntervalPassed ==
    [][turn' # turn =>
         LET s == reply'[1].session
         IN  /\ reply'[1].allowed <=> Eligible4(s)
             /\ ~reply'[1].allowed => last_query_time' = last_query_time
             /\ DOMAIN last_query_time' \subseteq DOMAIN last_query_time \cup {s}
             /\ \A k \in DOMAIN last_query_time \ {s} :
                    /\ k \in DOMAIN last_query_time'
                    /\ last_query_time'[k] = last_query_time[k]
             /\ (reply'[1].allowed /\ last_allowed[s] # None) =>
                    now - last_allowed[s][1]
                        >= query_interval * TicksPerSecond]_vars

C22_Witness ==
    /\ reply # None
    /\ Reply.session = "s2"
    /\ Reply.allowed
    /\ Reply.last_time = Some(0)
    /\ query_interval = 1
    /\ now = query_interval * TicksPerSecond
    /\ last_query_time["s2"] = Some(now)
    /\ "s1" \in DOMAIN last_query_time
    /\ last_query_time["s1"] = Some(0)

\* C23: when a query of session s is denied with a remaining wait of r
\* seconds, a query of s issued r seconds after the denied one, with no
\* allowed query of s in between, is allowed.
C23_ReportedWaitSuffices ==
    [][(turn' # turn /\ now \in promised[reply'[1].session]) =>
          reply'[1].allowed]_vars

\* C24: each of the four commands consults the limiter once against the
\* time of its session: a command of any kind is processed when its session
\* is eligible, an alias with the outcomes of its base command, and is
\* denied while a command of any kind of that session was allowed less than
\* query_interval seconds ago.
C24_OneLimiterForAllCommands ==
    [][turn' # turn =>
         LET s == reply'[1].session
         IN  /\ caller' \in {"stats", "stats_chinese", "rank", "rank_chinese"}
             /\ Eligible4(s) =>
                   /\ reply'[1].allowed
                   /\ reply'[1].outcome # "denied"
                   /\ caller' \in {"stats", "stats_chinese"} =>
                         reply'[1].outcome \in
                             {"help", "error", "image", "SystemExit"}
                   /\ caller' \in {"rank", "rank_chinese"} =>
                         reply'[1].outcome \in
                             {"error", "rankings", "SystemExit"}
             /\ ~Eligible4(s) => reply'[1].outcome = "denied"]_vars

C24_Witness ==
    /\ reply # None
    /\ caller = "rank_chinese"
    /\ Reply.session = "s1"
    /\ Reply.outcome = "rankings"
    /\ Reply.last_time = Some(0)
    /\ query_interval = 1
    /\ now = query_interval * TicksPerSecond

====
